---- MODULE Spec2Model ----
(***************************************************************************)
(* Native-messaging helper (host.py): a loop that reads length-prefixed    *)
(* JSON frames from stdin, dispatches on the "type" field and writes one   *)
(* length-prefixed JSON response to stdout.                                *)
(*                                                                         *)
(* Bytes are integers 0..255.  Text is a sequence of bytes.  Python values *)
(* are tagged records [k |-> <type name>, v |-> <value>].                  *)
(***************************************************************************)
EXTENDS Integers, Sequences, FiniteSets, TLC

\* ------------------------------------------------------------------------
\* Text helpers: printable ASCII, so that literals stay readable.
\* ------------------------------------------------------------------------

AsciiTable ==
    << " ", "!", "\"", "#", "$", "%", "&", "'", "(", ")", "*", "+", ",", "-", ".", "/",
       "0", "1", "2", "3", "4", "5", "6", "7", "8", "9", ":", ";", "<", "=", ">", "?",
       "@", "A", "B", "C", "D", "E", "F", "G", "H", "I", "J", "K", "L", "M", "N", "O",
       "P", "Q", "R", "S", "T", "U", "V", "W", "X", "Y", "Z", "[", "\\", "]", "^", "_",
       "<grave>", "a", "b", "c", "d", "e", "f", "g", "h", "i", "j", "k", "l", "m", "n", "o",
       "p", "q", "r", "s", "t", "u", "v", "w", "x", "y", "z", "{", "|", "}", "~" >>

\* Ord[c] is the ASCII code of the one-character string c (code 96 is
\* spelled "<grave>").
Ord ==
    [c \in {AsciiTable[i] : i \in 1..Len(AsciiTable)} |->
        CHOOSE n \in 32..126 : AsciiTable[n - 31] = c]

\* B(<<"{", "}">>) is the byte string of the given characters.
B(chars) == [i \in 1..Len(chars) |-> Ord[chars[i]]]

\* ------------------------------------------------------------------------
\* Python values
\* ------------------------------------------------------------------------

PyNone      == [k |-> "NoneType"]
PyBool(b)   == [k |-> "bool", v |-> b]
PyInt(n)    == [k |-> "int", v |-> n]
\* a float keeps only whether it is zero (all that its truth value needs)
PyFloat(z)  == [k |-> "float", z |-> z]
PyStr(s)    == [k |-> "str", v |-> s]
PyList(l)   == [k |-> "list", v |-> l]
PyDict(d)   == [k |-> "dict", v |-> d]

EmptyDict   == [key \in {} |-> PyNone]

\* dict.get(key): the value stored under key, None when the key is absent.
DictGet(msg, key) ==
    IF key \in DOMAIN msg.v THEN msg.v[key] ELSE PyNone

\* ------------------------------------------------------------------------
\* bytes.decode("utf-8"): TRUE when the byte string is well-formed UTF-8.
\* (lead byte classes and continuation counts; the text itself is kept as
\* its bytes, which for ASCII are the code points)
\* ------------------------------------------------------------------------

IsCont(b) == b >= 128 /\ b <= 191

RECURSIVE Utf8Valid(_, _)
Utf8Valid(data, i) ==
    IF i > Len(data) THEN TRUE
    ELSE LET b == data[i] IN
         IF b < 128 THEN Utf8Valid(data, i + 1)
         ELSE IF b >= 194 /\ b <= 223
              THEN /\ i + 1 <= Len(data)
                   /\ IsCont(data[i + 1])
                   /\ Utf8Valid(data, i + 2)
         ELSE IF b >= 224 /\ b <= 239
              THEN /\ i + 2 <= Len(data)
                   /\ IsCont(data[i + 1]) /\ IsCont(data[i + 2])
                   /\ (b = 224 => data[i + 1] >= 160)
                   /\ (b = 237 => data[i + 1] <= 159)
                   /\ Utf8Valid(data, i + 3)
         ELSE IF b >= 240 /\ b <= 244
              THEN /\ i + 3 <= Len(data)
                   /\ IsCont(data[i + 1]) /\ IsCont(data[i + 2]) /\ IsCont(data[i + 3])
                   /\ (b = 240 => data[i + 1] >= 144)
                   /\ (b = 244 => data[i + 1] <= 143)
                   /\ Utf8Valid(data, i + 4)
         ELSE FALSE

\* ------------------------------------------------------------------------
\* json.loads: a recursive-descent parser of the JSON grammar.
\* A parse result is [ok, val, next]: next is the index after the value.
\* ------------------------------------------------------------------------

ParseFail == [ok |-> FALSE, val |-> PyNone, next |-> 0]
ParseOk(val, next) == [ok |-> TRUE, val |-> val, next |-> next]

IsWs(b) == b \in {32, 9, 10, 13}
IsDigit(b) == b >= 48 /\ b <= 57

RECURSIVE SkipWs(_, _)
SkipWs(s, i) ==
    IF i <= Len(s) /\ IsWs(s[i]) THEN SkipWs(s, i + 1) ELSE i

\* TRUE when the bytes of lit occur in s at index i.
StartsWith(s, i, lit) ==
    /\ i + Len(lit) - 1 <= Len(s)
    /\ \A j \in 1..Len(lit) : s[i + j - 1] = lit[j]

RECURSIVE SkipDigits(_, _)
SkipDigits(s, i) ==
    IF i <= Len(s) /\ IsDigit(s[i]) THEN SkipDigits(s, i + 1) ELSE i

\* TRUE when no byte of s[i..j] is a digit other than 0.
ZeroDigits(s, i, j) ==
    \A n \in i..j : IsDigit(s[n]) => s[n] = 48

RECURSIVE DigitsValue(_, _, _)
DigitsValue(s, i, j) ==
    IF j < i THEN 0 ELSE DigitsValue(s, i, j - 1) * 10 + (s[j] - 48)

\* NUMBER_RE: optional minus, integer part, optional fraction, optional
\* exponent.  i is the index of the first byte, d0 of the first digit, dEnd
\* the index after the integer part, fEnd the index after the fraction.
NumberExp(s, i, d0, dEnd, fEnd) ==
    LET sign == /\ fEnd + 1 <= Len(s)
                /\ s[fEnd + 1] \in {Ord["+"], Ord["-"]}
        e0   == IF sign THEN fEnd + 2 ELSE fEnd + 1
        hasE == /\ fEnd <= Len(s)
                /\ s[fEnd] \in {Ord["e"], Ord["E"]}
                /\ e0 <= Len(s)
                /\ IsDigit(s[e0])
    IN  IF hasE THEN ParseOk(PyFloat(ZeroDigits(s, d0, fEnd - 1)), SkipDigits(s, e0))
        ELSE IF fEnd # dEnd THEN ParseOk(PyFloat(ZeroDigits(s, d0, fEnd - 1)), fEnd)
        ELSE ParseOk(PyInt(IF d0 # i THEN 0 - DigitsValue(s, d0, dEnd - 1)
                           ELSE DigitsValue(s, d0, dEnd - 1)), dEnd)

NumberFrac(s, i, d0, dEnd) ==
    NumberExp(s, i, d0, dEnd,
              IF /\ dEnd + 1 <= Len(s)
                 /\ s[dEnd] = Ord["."]
                 /\ IsDigit(s[dEnd + 1])
              THEN SkipDigits(s, dEnd + 1)
              ELSE dEnd)

NumberInt(s, i, d0) ==
    IF d0 > Len(s) \/ ~IsDigit(s[d0]) THEN ParseFail
    ELSE NumberFrac(s, i, d0, IF s[d0] = Ord["0"] THEN d0 + 1 ELSE SkipDigits(s, d0))

ParseNumber(s, i) ==
    NumberInt(s, i, IF s[i] = Ord["-"] THEN i + 1 ELSE i)

\* The character an escape letter stands for (0: not an escape letter).
Unescape(b) ==
    IF b = Ord["\""] THEN 34
    ELSE IF b = Ord["\\"] THEN 92
    ELSE IF b = Ord["/"] THEN 47
    ELSE IF b = Ord["b"] THEN 8
    ELSE IF b = Ord["f"] THEN 12
    ELSE IF b = Ord["n"] THEN 10
    ELSE IF b = Ord["r"] THEN 13
    ELSE IF b = Ord["t"] THEN 9
    ELSE 0

\* scanstring (strict): i is the index after the opening quote.
RECURSIVE ScanString(_, _, _)
ScanString(s, i, acc) ==
    IF i > Len(s) THEN ParseFail
    ELSE IF s[i] = Ord["\""] THEN ParseOk(PyStr(acc), i + 1)
    ELSE IF s[i] < 32 THEN ParseFail
    ELSE IF s[i] = Ord["\\"]
         THEN IF i + 1 > Len(s) \/ Unescape(s[i + 1]) = 0 THEN ParseFail
              ELSE ScanString(s, i + 2, Append(acc, Unescape(s[i + 1])))
    ELSE ScanString(s, i + 1, Append(acc, s[i]))

RECURSIVE ScanOnce(_, _)
RECURSIVE ArrayNext(_, _, _)
RECURSIVE ObjectKey(_, _, _)

\* JSONArray: r is the parse of an element, acc the elements before it
ArrayElement(s, r, acc) ==
    IF ~r.ok THEN ParseFail
    ELSE ArrayNext(s, SkipWs(s, r.next), Append(acc, r.val))

\* JSONArray after an element, at index j: "," and an element, or "]"
ArrayNext(s, j, acc) ==
    IF j > Len(s) THEN ParseFail
    ELSE IF s[j] = Ord["]"] THEN ParseOk(PyList(acc), j + 1)
    ELSE IF s[j] # Ord[","] THEN ParseFail
    ELSE ArrayElement(s, ScanOnce(s, SkipWs(s, j + 1)), acc)

\* JSONObject after a pair, at index e: "," and a key, or "}"
ObjectNext(s, e, d) ==
    IF e > Len(s) THEN ParseFail
    ELSE IF s[e] = Ord["}"] THEN ParseOk(PyDict(d), e + 1)
    ELSE IF s[e] # Ord[","] THEN ParseFail
    ELSE ObjectKey(s, SkipWs(s, e + 1), d)

\* JSONObject: r is the parse of the value of key; a repeated key keeps
\* the last value
ObjectValue(s, key, r, acc) ==
    IF ~r.ok THEN ParseFail
    ELSE ObjectNext(s, SkipWs(s, r.next), (key :> r.val) @@ acc)

\* JSONObject after a key, at index c: ":" and the value
ObjectColon(s, key, c, acc) ==
    IF c > Len(s) \/ s[c] # Ord[":"] THEN ParseFail
    ELSE ObjectValue(s, key, ScanOnce(s, SkipWs(s, c + 1)), acc)

\* JSONObject: k is the parse of a key
ObjectPair(s, k, acc) ==
    IF ~k.ok THEN ParseFail
    ELSE ObjectColon(s, k.val.v, SkipWs(s, k.next), acc)

\* JSONObject at index i, where a key must start
ObjectKey(s, i, acc) ==
    IF i > Len(s) \/ s[i] # Ord["\""] THEN ParseFail
    ELSE ObjectPair(s, ScanString(s, i + 1, <<>>), acc)

\* a number, or -Infinity where NUMBER_RE does not match
NumberOrInfinity(s, i, r) ==
    IF r.ok THEN r
    ELSE IF StartsWith(s, i, B(<<"-", "I", "n", "f", "i", "n", "i", "t", "y">>))
         THEN ParseOk(PyFloat(FALSE), i + 9)
         ELSE ParseFail

\* "{" was read, j is the index of what follows the white space after it
ObjectStart(s, j) ==
    IF j <= Len(s) /\ s[j] = Ord["}"]
    THEN ParseOk(PyDict(EmptyDict), j + 1)
    ELSE ObjectKey(s, j, EmptyDict)

\* "[" was read, j is the index of what follows the white space after it
ArrayStart(s, j) ==
    IF j <= Len(s) /\ s[j] = Ord["]"]
    THEN ParseOk(PyList(<<>>), j + 1)
    ELSE ArrayElement(s, ScanOnce(s, j), <<>>)

\* scan_once: the value that starts at index i.
ScanOnce(s, i) ==
    IF i > Len(s) THEN ParseFail
    ELSE IF s[i] = Ord["\""] THEN ScanString(s, i + 1, <<>>)
    ELSE IF s[i] = Ord["{"] THEN ObjectStart(s, SkipWs(s, i + 1))
    ELSE IF s[i] = Ord["["] THEN ArrayStart(s, SkipWs(s, i + 1))
    ELSE IF StartsWith(s, i, B(<<"n", "u", "l", "l">>)) THEN ParseOk(PyNone, i + 4)
    ELSE IF StartsWith(s, i, B(<<"t", "r", "u", "e">>)) THEN ParseOk(PyBool(TRUE), i + 4)
    ELSE IF StartsWith(s, i, B(<<"f", "a", "l", "s", "e">>)) THEN ParseOk(PyBool(FALSE), i + 5)
    ELSE IF s[i] = Ord["-"] \/ IsDigit(s[i])
         THEN NumberOrInfinity(s, i, ParseNumber(s, i))
    ELSE IF StartsWith(s, i, B(<<"N", "a", "N">>)) THEN ParseOk(PyFloat(FALSE), i + 3)
    ELSE IF StartsWith(s, i, B(<<"I", "n", "f", "i", "n", "i", "t", "y">>))
         THEN ParseOk(PyFloat(FALSE), i + 8)
    ELSE ParseFail

\* JSONDecoder.decode: r is the parse of the value; only white space may
\* follow it
DecodeEnd(s, r) ==
    IF ~r.ok THEN ParseFail
    ELSE IF SkipWs(s, r.next) # Len(s) + 1 THEN ParseFail
    ELSE r

\* json.loads(data.decode("utf-8")): [ok |-> FALSE] stands for the raised
\* UnicodeDecodeError / JSONDecodeError.
JsonLoads(bytes) ==
    IF ~Utf8Valid(bytes, 1) THEN ParseFail
    ELSE DecodeEnd(bytes, ScanOnce(bytes, SkipWs(bytes, 1)))

\* ------------------------------------------------------------------------
\* Truth value of a Python value (`if not target_dir`, `folder or None`).
\* ------------------------------------------------------------------------

\* Truthy with only None taken for false
Truthy_NoneOnly(x) == x.k # "NoneType"

Truthy(x) ==
    IF x.k = "NoneType" THEN FALSE
    ELSE IF x.k = "bool" THEN x.v
    ELSE IF x.k = "int" THEN x.v # 0
    ELSE IF x.k = "float" THEN ~x.z
    ELSE IF x.k = "str" THEN Len(x.v) > 0
    ELSE IF x.k = "list" THEN Len(x.v) > 0
    ELSE DOMAIN x.v # {}

\* ------------------------------------------------------------------------
\* os.path (POSIX) on byte strings
\* ------------------------------------------------------------------------

Slash == Ord["/"]

\* index of the last "/" of p, 0 when there is none (str.rfind + 1)
LastSlash(p) ==
    IF \E i \in 1..Len(p) : p[i] = Slash
    THEN CHOOSE i \in 1..Len(p) : p[i] = Slash /\ \A j \in (i + 1)..Len(p) : p[j] # Slash
    ELSE 0

\* Basename that keeps the directory part of the name
Basename_Whole(p) == p

\* os.path.basename(p): what follows the last "/"
Basename(p) == SubSeq(p, LastSlash(p) + 1, Len(p))

\* os.path.join(a, b)
Join(a, b) ==
    IF Len(b) > 0 /\ b[1] = Slash THEN b
    ELSE IF Len(a) = 0 \/ a[Len(a)] = Slash THEN a \o b
    ELSE a \o <<Slash>> \o b

\* the "/"-separated components of p, empty ones included
RECURSIVE SplitPath(_, _, _, _)
SplitPath(p, i, cur, acc) ==
    IF i > Len(p) THEN Append(acc, cur)
    ELSE IF p[i] = Slash THEN SplitPath(p, i + 1, <<>>, Append(acc, cur))
    ELSE SplitPath(p, i + 1, Append(cur, p[i]), acc)

\* the process's current working directory, as components
Cwd == << B(<<"w">>) >>

RECURSIVE Walk(_, _, _)
Walk(comps, i, at) ==
    IF i > Len(comps) THEN at
    ELSE IF comps[i] = <<>> \/ comps[i] = B(<<".">>) THEN Walk(comps, i + 1, at)
    ELSE IF comps[i] = B(<<".", ".">>)
         THEN Walk(comps, i + 1, IF at = <<>> THEN at ELSE SubSeq(at, 1, Len(at) - 1))
    ELSE Walk(comps, i + 1, Append(at, comps[i]))

\* The file-system node a path names: the sequence of directory entries
\* from the root.  A relative path starts at Cwd; ".." steps to the parent
\* (the paths of this model take ".." only from existing directories).
Resolve(p) ==
    Walk(SplitPath(p, 1, <<>>, <<>>), 1,
         IF Len(p) > 0 /\ p[1] = Slash THEN <<>> ELSE Cwd)

\* the nodes on the way from the root to node n, n included, root excluded
Ancestors(n) == {SubSeq(n, 1, i) : i \in 1..Len(n)}

\* ------------------------------------------------------------------------
\* base64.b64decode (validate=False): binascii.a2b_base64
\* ------------------------------------------------------------------------

\* value of a base64 digit, 64 for every other byte
B64Val(b) ==
    IF b >= 65 /\ b <= 90 THEN b - 65
    ELSE IF b >= 97 /\ b <= 122 THEN b - 71
    ELSE IF b >= 48 /\ b <= 57 THEN b + 4
    ELSE IF b = Ord["+"] THEN 62
    ELSE IF b = Ord["/"] THEN 63
    ELSE 64

Raise(type, text) == [raised |-> TRUE, type |-> type, msg |-> text]
Return(val) == [raised |-> FALSE, val |-> val]

RECURSIVE A2bBase64(_, _, _, _, _, _)
A2bBase64(s, i, quad_pos, leftchar, pads, out) ==
    IF i > Len(s)
    THEN IF quad_pos = 0 THEN Return(out)
         ELSE IF quad_pos = 1
              THEN Raise("binascii.Error", "Invalid base64-encoded string: number of data characters cannot be 1 more than a multiple of 4")
              ELSE Raise("binascii.Error", "Incorrect padding")
    ELSE IF s[i] = Ord["="]
         THEN IF quad_pos >= 2 /\ quad_pos + pads + 1 >= 4
              THEN Return(out)
              ELSE A2bBase64(s, i + 1, quad_pos, leftchar,
                             IF quad_pos >= 2 THEN pads + 1 ELSE pads, out)
    ELSE LET c == B64Val(s[i]) IN
         IF c >= 64 THEN A2bBase64(s, i + 1, quad_pos, leftchar, pads, out)
         ELSE IF quad_pos = 0 THEN A2bBase64(s, i + 1, 1, c, 0, out)
         ELSE IF quad_pos = 1
              THEN A2bBase64(s, i + 1, 2, c % 16, 0,
                             Append(out, leftchar * 4 + (c \div 16)))
         ELSE IF quad_pos = 2
              THEN A2bBase64(s, i + 1, 3, c % 4, 0,
                             Append(out, leftchar * 16 + (c \div 4)))
         ELSE A2bBase64(s, i + 1, 0, 0, 0, Append(out, leftchar * 64 + c))

\* base64.b64decode(x) for a Python value x
B64Decode(x) ==
    IF x.k # "str"
    THEN Raise("TypeError", "argument should be a bytes-like object or ASCII string")
    ELSE IF \E i \in 1..Len(x.v) : x.v[i] >= 128
         THEN Raise("ValueError", "string argument should contain only ASCII characters")
         ELSE A2bBase64(x.v, 1, 0, 0, 0, <<>>)

\* ------------------------------------------------------------------------
\* The wire: [4 bytes little-endian length N][N bytes payload]
\* ------------------------------------------------------------------------

\* struct.pack("<I", n)
PackLE(n) ==
    << n % 256, (n \div 256) % 256, (n \div 65536) % 256, (n \div 16777216) % 256 >>

\* struct.unpack("<I", raw)[0]
UnpackLE(raw) ==
    raw[1] + raw[2] * 256 + raw[3] * 65536 + raw[4] * 16777216

Frame(payload) == PackLE(Len(payload)) \o payload

\* ------------------------------------------------------------------------
\* json.dumps(message).encode("utf-8"), line 28
\* ------------------------------------------------------------------------

\* the texts of the exceptions the program can meet, and of line 73; of a
\* text that CPython completes with a file name or a count, the fixed part
Texts ==
    { "Invalid base64-encoded string: number of data characters cannot be 1 more than a multiple of 4",
      "Incorrect padding",
      "argument should be a bytes-like object or ASCII string",
      "string argument should contain only ASCII characters",
      "no display name and no $DISPLAY environment variable",
      "expected str, bytes or os.PathLike object, not NoneType",
      "expected str, bytes or os.PathLike object, not bool",
      "expected str, bytes or os.PathLike object, not int",
      "expected str, bytes or os.PathLike object, not float",
      "expected str, bytes or os.PathLike object, not list",
      "expected str, bytes or os.PathLike object, not dict",
      "[Errno 21] Is a directory",
      "[Errno 2] No such file or directory",
      "[Errno 13] Permission denied",
      "[Errno 28] No space left on device",
      "[Errno 17] File exists",
      "[Errno 20] Not a directory",
      "Missing target_dir",
      "'bool' object has no attribute 'get'",
      "'int' object has no attribute 'get'",
      "'float' object has no attribute 'get'",
      "'str' object has no attribute 'get'",
      "'list' object has no attribute 'get'",
      "Unknown message type" }

\* the texts of the program's messages, as str.encode("utf-8") gives them
TextBytes(s) ==
    CASE s = "Invalid base64-encoded string: number of data characters cannot be 1 more than a multiple of 4" ->
          << 73, 110, 118, 97, 108, 105, 100, 32, 98, 97, 115, 101, 54, 52,
          45, 101, 110, 99, 111, 100, 101, 100, 32, 115, 116, 114, 105, 110,
          103, 58, 32, 110, 117, 109, 98, 101, 114, 32, 111, 102, 32, 100,
          97, 116, 97, 32, 99, 104, 97, 114, 97, 99, 116, 101, 114, 115, 32,
          99, 97, 110, 110, 111, 116, 32, 98, 101, 32, 49, 32, 109, 111,
          114, 101, 32, 116, 104, 97, 110, 32, 97, 32, 109, 117, 108, 116,
          105, 112, 108, 101, 32, 111, 102, 32, 52 >>
      [] s = "Incorrect padding" ->
          << 73, 110, 99, 111, 114, 114, 101, 99, 116, 32, 112, 97, 100,
          100, 105, 110, 103 >>
      [] s = "argument should be a bytes-like object or ASCII string" ->
          << 97, 114, 103, 117, 109, 101, 110, 116, 32, 115, 104, 111, 117,
          108, 100, 32, 98, 101, 32, 97, 32, 98, 121, 116, 101, 115, 45,
          108, 105, 107, 101, 32, 111, 98, 106, 101, 99, 116, 32, 111, 114,
          32, 65, 83, 67, 73, 73, 32, 115, 116, 114, 105, 110, 103 >>
      [] s = "string argument should contain only ASCII characters" ->
          << 115, 116, 114, 105, 110, 103, 32, 97, 114, 103, 117, 109, 101,
          110, 116, 32, 115, 104, 111, 117, 108, 100, 32, 99, 111, 110, 116,
          97, 105, 110, 32, 111, 110, 108, 121, 32, 65, 83, 67, 73, 73, 32,
          99, 104, 97, 114, 97, 99, 116, 101, 114, 115 >>
      [] s = "no display name and no $DISPLAY environment variable" ->
          << 110, 111, 32, 100, 105, 115, 112, 108, 97, 121, 32, 110, 97,
          109, 101, 32, 97, 110, 100, 32, 110, 111, 32, 36, 68, 73, 83, 80,
          76, 65, 89, 32, 101, 110, 118, 105, 114, 111, 110, 109, 101, 110,
          116, 32, 118, 97, 114, 105, 97, 98, 108, 101 >>
      [] s = "expected str, bytes or os.PathLike object, not NoneType" ->
          << 101, 120, 112, 101, 99, 116, 101, 100, 32, 115, 116, 114, 44,
          32, 98, 121, 116, 101, 115, 32, 111, 114, 32, 111, 115, 46, 80,
          97, 116, 104, 76, 105, 107, 101, 32, 111, 98, 106, 101, 99, 116,
          44, 32, 110, 111, 116, 32, 78, 111, 110, 101, 84, 121, 112, 101 >>
      [] s = "expected str, bytes or os.PathLike object, not bool" ->
          << 101, 120, 112, 101, 99, 116, 101, 100, 32, 115, 116, 114, 44,
          32, 98, 121, 116, 101, 115, 32, 111, 114, 32, 111, 115, 46, 80,
          97, 116, 104, 76, 105, 107, 101, 32, 111, 98, 106, 101, 99, 116,
          44, 32, 110, 111, 116, 32, 98, 111, 111, 108 >>
      [] s = "expected str, bytes or os.PathLike object, not int" ->
          << 101, 120, 112, 101, 99, 116, 101, 100, 32, 115, 116, 114, 44,
          32, 98, 121, 116, 101, 115, 32, 111, 114, 32, 111, 115, 46, 80,
          97, 116, 104, 76, 105, 107, 101, 32, 111, 98, 106, 101, 99, 116,
          44, 32, 110, 111, 116, 32, 105, 110, 116 >>
      [] s = "expected str, bytes or os.PathLike object, not float" ->
          << 101, 120, 112, 101, 99, 116, 101, 100, 32, 115, 116, 114, 44,
          32, 98, 121, 116, 101, 115, 32, 111, 114, 32, 111, 115, 46, 80,
          97, 116, 104, 76, 105, 107, 101, 32, 111, 98, 106, 101, 99, 116,
          44, 32, 110, 111, 116, 32, 102, 108, 111, 97, 116 >>
      [] s = "expected str, bytes or os.PathLike object, not list" ->
          << 101, 120, 112, 101, 99, 116, 101, 100, 32, 115, 116, 114, 44,
          32, 98, 121, 116, 101, 115, 32, 111, 114, 32, 111, 115, 46, 80,
          97, 116, 104, 76, 105, 107, 101, 32, 111, 98, 106, 101, 99, 116,
          44, 32, 110, 111, 116, 32, 108, 105, 115, 116 >>
      [] s = "expected str, bytes or os.PathLike object, not dict" ->
          << 101, 120, 112, 101, 99, 116, 101, 100, 32, 115, 116, 114, 44,
          32, 98, 121, 116, 101, 115, 32, 111, 114, 32, 111, 115, 46, 80,
          97, 116, 104, 76, 105, 107, 101, 32, 111, 98, 106, 101, 99, 116,
          44, 32, 110, 111, 116, 32, 100, 105, 99, 116 >>
      [] s = "[Errno 21] Is a directory" ->
          << 91, 69, 114, 114, 110, 111, 32, 50, 49, 93, 32, 73, 115, 32,
          97, 32, 100, 105, 114, 101, 99, 116, 111, 114, 121 >>
      [] s = "[Errno 2] No such file or directory" ->
          << 91, 69, 114, 114, 110, 111, 32, 50, 93, 32, 78, 111, 32, 115,
          117, 99, 104, 32, 102, 105, 108, 101, 32, 111, 114, 32, 100, 105,
          114, 101, 99, 116, 111, 114, 121 >>
      [] s = "[Errno 13] Permission denied" ->
          << 91, 69, 114, 114, 110, 111, 32, 49, 51, 93, 32, 80, 101, 114,
          109, 105, 115, 115, 105, 111, 110, 32, 100, 101, 110, 105, 101,
          100 >>
      [] s = "[Errno 28] No space left on device" ->
          << 91, 69, 114, 114, 110, 111, 32, 50, 56, 93, 32, 78, 111, 32,
          115, 112, 97, 99, 101, 32, 108, 101, 102, 116, 32, 111, 110, 32,
          100, 101, 118, 105, 99, 101 >>
      [] s = "[Errno 17] File exists" ->
          << 91, 69, 114, 114, 110, 111, 32, 49, 55, 93, 32, 70, 105, 108,
          101, 32, 101, 120, 105, 115, 116, 115 >>
      [] s = "[Errno 20] Not a directory" ->
          << 91, 69, 114, 114, 110, 111, 32, 50, 48, 93, 32, 78, 111, 116,
          32, 97, 32, 100, 105, 114, 101, 99, 116, 111, 114, 121 >>
      [] s = "Missing target_dir" ->
          << 77, 105, 115, 115, 105, 110, 103, 32, 116, 97, 114, 103, 101,
          116, 95, 100, 105, 114 >>
      [] s = "'bool' object has no attribute 'get'" ->
          << 39, 98, 111, 111, 108, 39, 32, 111, 98, 106, 101, 99, 116, 32,
          104, 97, 115, 32, 110, 111, 32, 97, 116, 116, 114, 105, 98, 117,
          116, 101, 32, 39, 103, 101, 116, 39 >>
      [] s = "'int' object has no attribute 'get'" ->
          << 39, 105, 110, 116, 39, 32, 111, 98, 106, 101, 99, 116, 32, 104,
          97, 115, 32, 110, 111, 32, 97, 116, 116, 114, 105, 98, 117, 116,
          101, 32, 39, 103, 101, 116, 39 >>
      [] s = "'float' object has no attribute 'get'" ->
          << 39, 102, 108, 111, 97, 116, 39, 32, 111, 98, 106, 101, 99, 116,
          32, 104, 97, 115, 32, 110, 111, 32, 97, 116, 116, 114, 105, 98,
          117, 116, 101, 32, 39, 103, 101, 116, 39 >>
      [] s = "'str' object has no attribute 'get'" ->
          << 39, 115, 116, 114, 39, 32, 111, 98, 106, 101, 99, 116, 32, 104,
          97, 115, 32, 110, 111, 32, 97, 116, 116, 114, 105, 98, 117, 116,
          101, 32, 39, 103, 101, 116, 39 >>
      [] s = "'list' object has no attribute 'get'" ->
          << 39, 108, 105, 115, 116, 39, 32, 111, 98, 106, 101, 99, 116, 32,
          104, 97, 115, 32, 110, 111, 32, 97, 116, 116, 114, 105, 98, 117,
          116, 101, 32, 39, 103, 101, 116, 39 >>
      [] s = "Unknown message type" ->
          << 85, 110, 107, 110, 111, 119, 110, 32, 109, 101, 115, 115, 97,
          103, 101, 32, 116, 121, 112, 101 >>

HexDigit(n) == IF n < 10 THEN 48 + n ELSE 87 + n

\* "\uXXXX"
EscapeU(cp) ==
    << 92, 117, HexDigit(cp \div 4096), HexDigit((cp \div 256) % 16),
       HexDigit((cp \div 16) % 16), HexDigit(cp % 16) >>

\* number of bytes of the UTF-8 sequence that starts with byte b
Utf8Width(b) == IF b < 128 THEN 1 ELSE IF b < 224 THEN 2 ELSE IF b < 240 THEN 3 ELSE 4

\* the code point of the UTF-8 sequence at s[i]
CodePoint(s, i) ==
    IF s[i] < 128 THEN s[i]
    ELSE IF s[i] < 224 THEN (s[i] - 192) * 64 + (s[i + 1] - 128)
    ELSE IF s[i] < 240
    THEN (s[i] - 224) * 4096 + (s[i + 1] - 128) * 64 + (s[i + 2] - 128)
    ELSE (s[i] - 240) * 262144 + (s[i + 1] - 128) * 4096
         + (s[i + 2] - 128) * 64 + (s[i + 3] - 128)

\* json.encoder.py_encode_basestring_ascii for one code point
EscapeCodePoint(cp) ==
    IF cp = 34 THEN << 92, 34 >>
    ELSE IF cp = 92 THEN << 92, 92 >>
    ELSE IF cp = 10 THEN << 92, 110 >>
    ELSE IF cp = 13 THEN << 92, 114 >>
    ELSE IF cp = 9 THEN << 92, 116 >>
    ELSE IF cp = 8 THEN << 92, 98 >>
    ELSE IF cp = 12 THEN << 92, 102 >>
    ELSE IF cp >= 32 /\ cp <= 126 THEN << cp >>
    ELSE IF cp < 65536 THEN EscapeU(cp)
    ELSE EscapeU(55296 + ((cp - 65536) \div 1024)) \o EscapeU(56320 + ((cp - 65536) % 1024))

RECURSIVE EscapeFrom(_, _)
EscapeFrom(s, i) ==
    IF i > Len(s) THEN <<>>
    ELSE EscapeCodePoint(CodePoint(s, i)) \o EscapeFrom(s, i + Utf8Width(s[i]))

\* a str as a JSON string
DumpStr(s) == << 34 >> \o EscapeFrom(s, 1) \o << 34 >>

\* the values the responses carry: None, a bool, a str
DumpValue(x) ==
    IF x.k = "NoneType" THEN B(<<"n", "u", "l", "l">>)
    ELSE IF x.k = "bool" THEN (IF x.v THEN B(<<"t", "r", "u", "e">>)
                               ELSE B(<<"f", "a", "l", "s", "e">>))
    ELSE DumpStr(x.v)

\* the texts as JSON strings
DumpedText == [s \in Texts |-> DumpStr(TextBytes(s))]

\* the keys of the responses
KeyBytes ==
    [ ok |-> B(<<"o", "k">>),
      error |-> B(<<"e", "r", "r", "o", "r">>),
      folder |-> B(<<"f", "o", "l", "d", "e", "r">>),
      path |-> B(<<"p", "a", "t", "h">>) ]

\* "<key>": for each key
DumpedKey == [k \in DOMAIN KeyBytes |-> DumpStr(KeyBytes[k]) \o B(<<":", " ">>)]

\* {"ok": <ok>, for each value of ok
DumpedHead ==
    [ok \in BOOLEAN |-> B(<<"{">>) \o DumpedKey["ok"] \o DumpValue(PyBool(ok)) \o B(<<",", " ">>)]

\* lines 65, 71, 73, 75 build dicts of two items, "ok" first; line 28 encodes
\* them with the keys in insertion order and ", " and ": " between the items
JsonDumps(message) ==
    DumpedHead[message.ok]
        \o (IF "error" \in DOMAIN message
            THEN DumpedKey["error"] \o DumpedText[message.error]
            ELSE IF "folder" \in DOMAIN message
            THEN DumpedKey["folder"] \o DumpValue(message.folder)
            ELSE DumpedKey["path"] \o DumpValue(message.path))
        \o B(<<"}">>)

\* ------------------------------------------------------------------------
\* The payloads the browser side sends in this model.
\* ------------------------------------------------------------------------

\* a zero-byte payload
P_empty == <<>>

\* one byte that is not UTF-8
P_badutf8 == <<255>>

\* null
P_null ==
    B(<< "n", "u", "l", "l" >>)

\* 1
P_int ==
    B(<< "1" >>)

\* []
P_list ==
    B(<< "[", "]" >>)

\* {} 
P_objsp ==
    B(<< "{", "}", " " >>)

\* {
P_badjson ==
    B(<< "{" >>)

\* {"type":"bogus"}
P_bogus ==
    B(<< "{", "\"", "t", "y", "p", "e", "\"", ":", "\"", "b", "o", "g", "u",
        "s", "\"", "}" >>)

\* {"type":"pickFolder"}
P_pick ==
    B(<< "{", "\"", "t", "y", "p", "e", "\"", ":", "\"", "p", "i", "c", "k",
        "F", "o", "l", "d", "e", "r", "\"", "}" >>)

\* {"type":"saveCsv","targetDir":"/t","filename":"a","base64":"aGk="}
P_save ==
    B(<< "{", "\"", "t", "y", "p", "e", "\"", ":", "\"", "s", "a", "v", "e",
        "C", "s", "v", "\"", ",", "\"", "t", "a", "r", "g", "e", "t", "D", "i",
        "r", "\"", ":", "\"", "/", "t", "\"", ",", "\"", "f", "i", "l", "e",
        "n", "a", "m", "e", "\"", ":", "\"", "a", "\"", ",", "\"", "b", "a",
        "s", "e", "6", "4", "\"", ":", "\"", "a", "G", "k", "=", "\"", "}" >>)

\* {"type":"saveCsv","targetDir":"/t/u","filename":"../../e","base64":"aGk="}
P_save_evil ==
    B(<< "{", "\"", "t", "y", "p", "e", "\"", ":", "\"", "s", "a", "v", "e",
        "C", "s", "v", "\"", ",", "\"", "t", "a", "r", "g", "e", "t", "D", "i",
        "r", "\"", ":", "\"", "/", "t", "/", "u", "\"", ",", "\"", "f", "i",
        "l", "e", "n", "a", "m", "e", "\"", ":", "\"", ".", ".", "/", ".", ".",
        "/", "e", "\"", ",", "\"", "b", "a", "s", "e", "6", "4", "\"", ":",
        "\"", "a", "G", "k", "=", "\"", "}" >>)

\* {"type":"saveCsv","targetDir":"t","filename":"/a","base64":"aGk="}
P_save_rel ==
    B(<< "{", "\"", "t", "y", "p", "e", "\"", ":", "\"", "s", "a", "v", "e",
        "C", "s", "v", "\"", ",", "\"", "t", "a", "r", "g", "e", "t", "D", "i",
        "r", "\"", ":", "\"", "t", "\"", ",", "\"", "f", "i", "l", "e", "n",
        "a", "m", "e", "\"", ":", "\"", "/", "a", "\"", ",", "\"", "b", "a",
        "s", "e", "6", "4", "\"", ":", "\"", "a", "G", "k", "=", "\"", "}" >>)

\* {"type":"saveCsv","targetDir":"/t","filename":"..","base64":"aGk="}
P_save_dots ==
    B(<< "{", "\"", "t", "y", "p", "e", "\"", ":", "\"", "s", "a", "v", "e",
        "C", "s", "v", "\"", ",", "\"", "t", "a", "r", "g", "e", "t", "D", "i",
        "r", "\"", ":", "\"", "/", "t", "\"", ",", "\"", "f", "i", "l", "e",
        "n", "a", "m", "e", "\"", ":", "\"", ".", ".", "\"", ",", "\"", "b",
        "a", "s", "e", "6", "4", "\"", ":", "\"", "a", "G", "k", "=", "\"",
        "}" >>)

\* {"type":"saveCsv","targetDir":"/t","filename":"a","base64":"a"}
P_save_badb64 ==
    B(<< "{", "\"", "t", "y", "p", "e", "\"", ":", "\"", "s", "a", "v", "e",
        "C", "s", "v", "\"", ",", "\"", "t", "a", "r", "g", "e", "t", "D", "i",
        "r", "\"", ":", "\"", "/", "t", "\"", ",", "\"", "f", "i", "l", "e",
        "n", "a", "m", "e", "\"", ":", "\"", "a", "\"", ",", "\"", "b", "a",
        "s", "e", "6", "4", "\"", ":", "\"", "a", "\"", "}" >>)

\* {"type":"saveCsv","targetDir":"/t","filename":"","base64":"aGk="}
P_save_noname ==
    B(<< "{", "\"", "t", "y", "p", "e", "\"", ":", "\"", "s", "a", "v", "e",
        "C", "s", "v", "\"", ",", "\"", "t", "a", "r", "g", "e", "t", "D",
        "i", "r", "\"", ":", "\"", "/", "t", "\"", ",", "\"", "f", "i", "l",
        "e", "n", "a", "m", "e", "\"", ":", "\"", "\"", ",", "\"", "b", "a",
        "s", "e", "6", "4", "\"", ":", "\"", "a", "G", "k", "=", "\"", "}" >>)

\* {"type":"saveCsv","targetDir":"","filename":"a","base64":"aGk="}
P_save_nodir ==
    B(<< "{", "\"", "t", "y", "p", "e", "\"", ":", "\"", "s", "a", "v", "e",
        "C", "s", "v", "\"", ",", "\"", "t", "a", "r", "g", "e", "t", "D", "i",
        "r", "\"", ":", "\"", "\"", ",", "\"", "f", "i", "l", "e", "n", "a",
        "m", "e", "\"", ":", "\"", "a", "\"", ",", "\"", "b", "a", "s", "e",
        "6", "4", "\"", ":", "\"", "a", "G", "k", "=", "\"", "}" >>)

\* {"type":"saveCsv"}
P_save_miss ==
    B(<< "{", "\"", "t", "y", "p", "e", "\"", ":", "\"", "s", "a", "v", "e",
        "C", "s", "v", "\"", "}" >>)

Payloads ==
    { P_empty, P_badutf8,
      P_null,
      P_int,
      P_list,
      P_objsp,
      P_badjson,
      P_bogus,
      P_pick,
      P_save,
      P_save_evil,
      P_save_rel,
      P_save_dots,
      P_save_noname,
      P_save_badb64,
      P_save_nodir,
      P_save_miss }

\* payloads a closing stream may cut short
CutPayloads == { P_objsp }

\* the most frames the browser side writes
MaxFrames == 2

\* ------------------------------------------------------------------------
\* State
\* ------------------------------------------------------------------------

VARIABLES
    stdin,         \* bytes written to the input pipe and not yet read
    stdin_closed,  \* the writing end of the input pipe is closed
    nfed,          \* frames (whole or cut short) written to the pipe so far
    pc,            \* "read_len" (line 17), "read_data" (line 21),
                   \* "handle" (line 61), "exited"
    raw_len,       \* read_message: the bytes read at line 17
    msg_len,       \* read_message: the declared length
    data,          \* read_message: the bytes read at line 21
    msg,           \* main loop: the decoded message
    caught,        \* main loop: the exception the last iteration caught
    exit_code,     \* exit status of the process, -1 while it runs
    stdout,        \* the messages passed to send_message, in order
    stdout_buffer, \* bytes written to sys.stdout.buffer and not yet flushed
    stdout_pipe,   \* bytes flushed to the output pipe
    nread,         \* frames read_message took from the input (a prefix of 4
                   \* bytes and the payload bytes that were there)
    frames_read,   \* the payloads of the frames read completely, in order
    tk,            \* TRUE when the import of tkinter succeeded
    prompts,       \* number of folder prompts shown
    fs_dirs,       \* the directories of the file system
    fs_files       \* the regular files of the file system and their content

vars == << stdin, stdin_closed, nfed, pc, raw_len, msg_len, data, msg, caught,
           exit_code, stdout, stdout_buffer, stdout_pipe, nread, frames_read,
           tk, prompts, fs_dirs, fs_files >>

envVars  == << stdin_closed, nfed >>
readVars == << raw_len, msg_len, data >>
fsVars   == << fs_dirs, fs_files >>
outVars  == << stdout, stdout_buffer, stdout_pipe >>

NoFiles == [n \in {} |-> <<>>]

Init ==
    /\ stdin = <<>>
    /\ stdin_closed = FALSE
    /\ nfed = 0
    /\ pc = "read_len"
    /\ raw_len = <<>>
    /\ msg_len = 0
    /\ data = <<>>
    /\ msg = PyNone
    /\ caught = Return(PyNone)
    /\ exit_code = -1
    /\ stdout = <<>>
    /\ stdout_buffer = <<>>
    /\ stdout_pipe = <<>>
    /\ nread = 0
    /\ frames_read = <<>>
    /\ tk \in BOOLEAN
    /\ prompts = 0
    /\ fs_dirs = {<<>>} \cup Ancestors(Cwd)
    /\ fs_files = NoFiles

\* ------------------------------------------------------------------------
\* The browser side of the input pipe
\* ------------------------------------------------------------------------

\* a whole frame is written
WriteFrame(payload) ==
    /\ pc # "exited"
    /\ ~stdin_closed
    /\ nfed < MaxFrames
    /\ stdin' = stdin \o Frame(payload)
    /\ nfed' = nfed + 1
    /\ UNCHANGED << stdin_closed, pc, readVars, msg, caught, exit_code, outVars, nread,
                    frames_read, tk, prompts, fsVars >>

\* the first k bytes of a frame are written and the pipe is closed
WriteCut(payload, k) ==
    /\ pc # "exited"
    /\ ~stdin_closed
    /\ nfed < MaxFrames
    /\ stdin' = stdin \o SubSeq(Frame(payload), 1, k)
    /\ stdin_closed' = TRUE
    /\ nfed' = nfed + 1
    /\ UNCHANGED << pc, readVars, msg, caught, exit_code, outVars, nread,
                    frames_read, tk, prompts, fsVars >>

\* the pipe is closed at a frame boundary
CloseInput ==
    /\ pc # "exited"
    /\ ~stdin_closed
    /\ stdin_closed' = TRUE
    /\ UNCHANGED << stdin, nfed, pc, readVars, msg, caught, exit_code, outVars, nread,
                    frames_read, tk, prompts, fsVars >>

\* ------------------------------------------------------------------------
\* read_message
\* ------------------------------------------------------------------------

\* sys.stdin.buffer.read(n) returns n bytes, or fewer at end of stream;
\* it blocks while fewer than n bytes are there and the pipe is open.
CanRead(n) == Len(stdin) >= n \/ stdin_closed
ReadBytes(n) == SubSeq(stdin, 1, IF Len(stdin) < n THEN Len(stdin) ELSE n)
RestBytes(n) == SubSeq(stdin, (IF Len(stdin) < n THEN Len(stdin) ELSE n) + 1, Len(stdin))

\* PrefixResult with every short prefix taken for the end of the stream
PrefixResult_ShortIsNone(raw) ==
    IF Len(raw) # 4 THEN [kind |-> "None"]
    ELSE [kind |-> "len", n |-> UnpackLE(raw)]

\* PrefixResult with the test for the end of the stream left out
PrefixResult_NoEofTest(raw) ==
    IF Len(raw) # 4 THEN [kind |-> "raise"]
    ELSE [kind |-> "len", n |-> UnpackLE(raw)]

\* lines 18-20: what read_message does with the bytes of the prefix
PrefixResult(raw) ==
    IF Len(raw) = 0 THEN [kind |-> "None"]
    ELSE IF Len(raw) # 4 THEN [kind |-> "raise"]
    ELSE [kind |-> "len", n |-> UnpackLE(raw)]

\* line 24 on the decoded value
Decoded(j) ==
    IF ~j.ok THEN [kind |-> "raise"]
    ELSE [kind |-> "value", val |-> j.val]

\* lines 22-24: what read_message does with the bytes of the payload
PayloadResult(d) ==
    IF Len(d) = 0 THEN [kind |-> "None"]
    ELSE Decoded(JsonLoads(d))

\* the loop ends: `break` (status 0) or an uncaught exception (status 1)
Exit(code) ==
    /\ pc' = "exited"
    /\ exit_code' = code

\* lines 17-20, and lines 59-60 when read_message returns None here
ReadLen ==
    /\ pc = "read_len"
    /\ CanRead(4)
    /\ LET raw == ReadBytes(4)
           r == PrefixResult(raw)
       IN  /\ raw_len' = raw
           /\ stdin' = RestBytes(4)
           /\ IF r.kind = "None" THEN Exit(0) /\ msg' = PyNone /\ msg_len' = msg_len
              ELSE IF r.kind = "raise" THEN Exit(1) /\ UNCHANGED << msg, msg_len >>
              ELSE /\ msg_len' = r.n
                   /\ pc' = "read_data"
                   /\ UNCHANGED << msg, exit_code >>
    /\ UNCHANGED << envVars, data, caught, outVars, nread, frames_read, tk,
                    prompts, fsVars >>

\* lines 59-60 on the result r of reading the payload d
Received(d, r) ==
    /\ data' = d
    /\ frames_read' = IF Len(d) = msg_len THEN Append(frames_read, d)
                      ELSE frames_read
    /\ IF r.kind = "raise" THEN Exit(1) /\ msg' = msg
       ELSE IF r.kind = "None" \/ r.val.k = "NoneType" THEN Exit(0) /\ msg' = PyNone
       ELSE /\ msg' = r.val
            /\ pc' = "handle"
            /\ exit_code' = exit_code

\* lines 21-24, and lines 59-60
ReadData ==
    /\ pc = "read_data"
    /\ CanRead(msg_len)
    /\ stdin' = RestBytes(msg_len)
    /\ nread' = nread + 1
    /\ Received(ReadBytes(msg_len), PayloadResult(ReadBytes(msg_len)))
    /\ UNCHANGED << envVars, raw_len, msg_len, caught, outVars, tk, prompts, fsVars >>

\* ------------------------------------------------------------------------
\* send_message
\* ------------------------------------------------------------------------

\* Buffered with the length packed big-endian (">I")
Buffered_BigEndian(buffer, encoded) ==
    buffer \o << PackLE(Len(encoded))[4], PackLE(Len(encoded))[3],
                 PackLE(Len(encoded))[2], PackLE(Len(encoded))[1] >> \o encoded

\* lines 29-30: the buffer of sys.stdout after the two writes
Buffered(buffer, encoded) == buffer \o PackLE(Len(encoded)) \o encoded

\* lines 27-31: the encoded message and its length go into the buffer of
\* sys.stdout, and flush() moves the buffer to the pipe
SendMessage(message) ==
    /\ stdout' = Append(stdout, message)
    /\ stdout_pipe' = stdout_pipe \o Buffered(stdout_buffer, JsonDumps(message))
    /\ stdout_buffer' = <<>>

\* ------------------------------------------------------------------------
\* pick_folder
\* ------------------------------------------------------------------------

PickedFolder == B(<<"/", "d">>)

\* what filedialog.askdirectory can answer: "" on cancel, or a folder
AskDirectoryAnswers == { <<>>, PickedFolder }

\* tk.Tk() fails when there is no display
NoDisplay == Raise("TclError", "no display name and no $DISPLAY environment variable")

\* lines 34-42 for one run of the dialog: gui is "display" or "nodisplay",
\* answer is what askdirectory returns (initial_dir only sets the folder the
\* dialog opens in)
PickFolder(has_tk, initial_dir, gui, answer) ==
    IF ~has_tk THEN Return(PyNone)
    ELSE IF gui = "nodisplay" THEN NoDisplay
    ELSE Return(IF Truthy(PyStr(answer)) THEN PyStr(answer) ELSE PyNone)

\* ------------------------------------------------------------------------
\* save_csv
\* ------------------------------------------------------------------------

\* os.fspath(x) of a value that is not a string
FspathError(x) ==
    Raise("TypeError",
          IF x.k = "NoneType" THEN "expected str, bytes or os.PathLike object, not NoneType"
          ELSE IF x.k = "bool" THEN "expected str, bytes or os.PathLike object, not bool"
          ELSE IF x.k = "int" THEN "expected str, bytes or os.PathLike object, not int"
          ELSE IF x.k = "float" THEN "expected str, bytes or os.PathLike object, not float"
          ELSE IF x.k = "list" THEN "expected str, bytes or os.PathLike object, not list"
          ELSE "expected str, bytes or os.PathLike object, not dict")

\* what the operating system can refuse during one save_csv call
Faults == { "none", "mkdir", "open", "write" }

SaveResult(dirs, files, res) == [dirs |-> dirs, files |-> files, res |-> res]

\* WriteFile with the file opened for appending ("ab")
WriteFile_Append(dirs, files, path, bytes, fault) ==
    LET node == Resolve(path) IN
    IF node \in dirs
    THEN SaveResult(dirs, files, Raise("IsADirectoryError", "[Errno 21] Is a directory"))
    ELSE IF SubSeq(node, 1, Len(node) - 1) \notin dirs
    THEN SaveResult(dirs, files, Raise("FileNotFoundError", "[Errno 2] No such file or directory"))
    ELSE IF fault = "open"
    THEN SaveResult(dirs, files, Raise("PermissionError", "[Errno 13] Permission denied"))
    ELSE IF fault = "write"
    THEN SaveResult(dirs, (node :> <<>>) @@ files,
                    Raise("OSError", "[Errno 28] No space left on device"))
    ELSE SaveResult(dirs,
                    (node :> ((IF node \in DOMAIN files THEN files[node] ELSE <<>>) \o bytes))
                        @@ files,
                    Return(PyStr(path)))

\* lines 52-53: open(path, "wb") truncates or creates the file, write fills it
WriteFile(dirs, files, path, bytes, fault) ==
    LET node == Resolve(path) IN
    IF node \in dirs
    THEN SaveResult(dirs, files, Raise("IsADirectoryError", "[Errno 21] Is a directory"))
    ELSE IF SubSeq(node, 1, Len(node) - 1) \notin dirs
    THEN SaveResult(dirs, files, Raise("FileNotFoundError", "[Errno 2] No such file or directory"))
    ELSE IF fault = "open"
    THEN SaveResult(dirs, files, Raise("PermissionError", "[Errno 13] Permission denied"))
    ELSE IF fault = "write"
    THEN SaveResult(dirs, (node :> <<>>) @@ files,
                    Raise("OSError", "[Errno 28] No space left on device"))
    ELSE SaveResult(dirs, (node :> bytes) @@ files, Return(PyStr(path)))

\* MakeDirs without exist_ok: a target_dir that exists is an error
MakeDirs_NoExistOk(dirs, files, target_dir, fault) ==
    LET node == Resolve(target_dir)
        missing == Ancestors(node) \ dirs
    IN
    IF Ancestors(node) \cap DOMAIN files # {}
    THEN [dirs |-> dirs,
          res |-> IF node \in DOMAIN files
                  THEN Raise("FileExistsError", "[Errno 17] File exists")
                  ELSE Raise("NotADirectoryError", "[Errno 20] Not a directory")]
    ELSE IF node \in dirs
    THEN [dirs |-> dirs, res |-> Raise("FileExistsError", "[Errno 17] File exists")]
    ELSE IF fault = "mkdir" /\ missing # {}
    THEN [dirs |-> dirs, res |-> Raise("PermissionError", "[Errno 13] Permission denied")]
    ELSE [dirs |-> dirs \cup missing, res |-> Return(PyNone)]

\* line 48: os.makedirs(target_dir, exist_ok=True); a refused mkdir is
\* modelled at the first missing directory
MakeDirs(dirs, files, target_dir, fault) ==
    LET node == Resolve(target_dir)
        missing == Ancestors(node) \ dirs
    IN
    IF Ancestors(node) \cap DOMAIN files # {}
    THEN [dirs |-> dirs,
          res |-> IF node \in DOMAIN files
                  THEN Raise("FileExistsError", "[Errno 17] File exists")
                  ELSE Raise("NotADirectoryError", "[Errno 20] Not a directory")]
    ELSE IF fault = "mkdir" /\ missing # {}
    THEN [dirs |-> dirs, res |-> Raise("PermissionError", "[Errno 13] Permission denied")]
    ELSE [dirs |-> dirs \cup missing, res |-> Return(PyNone)]

\* SaveCsv with the file opened before the text is decoded
SaveCsv_OpenBeforeDecode(dirs, files, target_dir, filename, base64_data, fault) ==
    IF ~Truthy(target_dir)
    THEN SaveResult(dirs, files, Raise("ValueError", "Missing target_dir"))
    ELSE IF target_dir.k # "str"
    THEN SaveResult(dirs, files, FspathError(target_dir))
    ELSE LET made == MakeDirs(dirs, files, target_dir.v, fault) IN
         IF made.res.raised THEN SaveResult(made.dirs, files, made.res)
         ELSE IF filename.k # "str"
         THEN SaveResult(made.dirs, files, FspathError(filename))
         ELSE LET safe_name == Basename(filename.v)
                  path == Join(target_dir.v, safe_name)
                  opened == WriteFile(made.dirs, files, path, <<>>, fault)
                  decoded == B64Decode(base64_data)
              IN  IF opened.res.raised THEN opened
                  ELSE IF decoded.raised THEN SaveResult(opened.dirs, opened.files, decoded)
                  ELSE WriteFile(made.dirs, files, path, decoded.val, fault)

\* lines 45-54
SaveCsv(dirs, files, target_dir, filename, base64_data, fault) ==
    IF ~Truthy(target_dir)
    THEN SaveResult(dirs, files, Raise("ValueError", "Missing target_dir"))
    ELSE IF target_dir.k # "str"
    THEN SaveResult(dirs, files, FspathError(target_dir))
    ELSE LET made == MakeDirs(dirs, files, target_dir.v, fault) IN
         IF made.res.raised THEN SaveResult(made.dirs, files, made.res)
         ELSE IF filename.k # "str"
         THEN SaveResult(made.dirs, files, FspathError(filename))
         ELSE LET safe_name == Basename(filename.v)
                  path == Join(target_dir.v, safe_name)
                  decoded == B64Decode(base64_data)
              IN  IF decoded.raised THEN SaveResult(made.dirs, files, decoded)
                  ELSE WriteFile(made.dirs, files, path, decoded.val, fault)

\* ------------------------------------------------------------------------
\* The main loop, lines 61-75
\* ------------------------------------------------------------------------

K_type       == B(<<"t", "y", "p", "e">>)
K_initialDir == B(<<"i", "n", "i", "t", "i", "a", "l", "D", "i", "r">>)
K_targetDir  == B(<<"t", "a", "r", "g", "e", "t", "D", "i", "r">>)
K_filename   == B(<<"f", "i", "l", "e", "n", "a", "m", "e">>)
K_base64     == B(<<"b", "a", "s", "e", "6", "4">>)
T_pickFolder == PyStr(B(<<"p", "i", "c", "k", "F", "o", "l", "d", "e", "r">>))
T_saveCsv    == PyStr(B(<<"s", "a", "v", "e", "C", "s", "v">>))

\* msg.get of a value that is not a dict
NoGet(x) ==
    Raise("AttributeError",
          IF x.k = "bool" THEN "'bool' object has no attribute 'get'"
          ELSE IF x.k = "int" THEN "'int' object has no attribute 'get'"
          ELSE IF x.k = "float" THEN "'float' object has no attribute 'get'"
          ELSE IF x.k = "str" THEN "'str' object has no attribute 'get'"
          ELSE "'list' object has no attribute 'get'")

\* Route with a message without "type" taken for a pickFolder request
Route_AbsentIsPick(m) ==
    IF m.k # "dict" THEN "raise"
    ELSE IF K_type \notin DOMAIN m.v \/ DictGet(m, K_type) = T_pickFolder THEN "pickFolder"
    ELSE IF DictGet(m, K_type) = T_saveCsv THEN "saveCsv"
    ELSE "unknown"

\* lines 62, 66, 72: the branch the message takes
Route(m) ==
    IF m.k # "dict" THEN "raise"
    ELSE IF DictGet(m, K_type) = T_pickFolder THEN "pickFolder"
    ELSE IF DictGet(m, K_type) = T_saveCsv THEN "saveCsv"
    ELSE "unknown"

UnknownType == [ok |-> FALSE, error |-> "Unknown message type"]

\* lines 74-75: the response an exception becomes
ErrorResponse(e) == [ok |-> FALSE, error |-> e.msg]

\* Answer with an `except` clause that catches ValueError only
Answer_OnlyValueError(outcome, success) ==
    IF outcome.raised /\ outcome.type # "ValueError"
    THEN /\ caught' = outcome
         /\ UNCHANGED outVars
         /\ Exit(1)
    ELSE /\ caught' = (IF outcome.raised THEN outcome ELSE Return(PyNone))
         /\ SendMessage(IF outcome.raised THEN ErrorResponse(outcome) ELSE success)
         /\ pc' = "read_len"
         /\ exit_code' = exit_code

\* Answer with a second response written after a success
Answer_SecondAfterSuccess(outcome, success) ==
    /\ caught' = (IF outcome.raised THEN outcome ELSE Return(PyNone))
    /\ IF outcome.raised THEN SendMessage(ErrorResponse(outcome))
       ELSE /\ stdout' = stdout \o << success, UnknownType >>
            /\ stdout_pipe' = Buffered(Buffered(stdout_pipe, JsonDumps(success)),
                                       JsonDumps(UnknownType))
            /\ stdout_buffer' = <<>>
    /\ pc' = "read_len"
    /\ exit_code' = exit_code

\* the end of an iteration: the outcome is sent, the loop reads again
Answer(outcome, success) ==
    /\ caught' = (IF outcome.raised THEN outcome ELSE Return(PyNone))
    /\ SendMessage(IF outcome.raised THEN ErrorResponse(outcome) ELSE success)
    /\ pc' = "read_len"
    /\ exit_code' = exit_code

\* line 65: the dict a pickFolder request is answered with
PickResponse(chosen) ==
    [ok |-> TRUE, folder |-> IF chosen.raised THEN PyNone ELSE chosen.val]

\* SaveResponse with the path under the key of the other request kind
SaveResponse_FolderKey(res) ==
    [ok |-> TRUE, folder |-> IF res.raised THEN PyNone ELSE res.val]

\* line 71: the dict a saveCsv request is answered with
SaveResponse(res) ==
    [ok |-> TRUE, path |-> IF res.raised THEN PyNone ELSE res.val]

\* line 62 on a message that is not a dict
HandleNoGet ==
    /\ pc = "handle"
    /\ Route(msg) = "raise"
    /\ Answer(NoGet(msg), UnknownType)
    /\ UNCHANGED << stdin, envVars, readVars, msg, nread, frames_read, tk, prompts, fsVars >>

\* lines 64-65 on the outcome of pick_folder
Picked(chosen) == Answer(chosen, PickResponse(chosen))

\* lines 62-65
HandlePickFolder ==
    /\ pc = "handle"
    /\ Route(msg) = "pickFolder"
    /\ \E gui \in {"display", "nodisplay"} : \E answer \in AskDirectoryAnswers :
          /\ Picked(PickFolder(tk, DictGet(msg, K_initialDir), gui, answer))
          /\ prompts' = IF tk /\ gui = "display" THEN prompts + 1 ELSE prompts
    /\ UNCHANGED << stdin, envVars, readVars, msg, nread, frames_read, tk, fsVars >>

\* lines 66-71 on the outcome of save_csv
Saved(saved) ==
    /\ fs_dirs' = saved.dirs
    /\ fs_files' = saved.files
    /\ Answer(saved.res, SaveResponse(saved.res))

\* lines 66-71
HandleSaveCsv ==
    /\ pc = "handle"
    /\ Route(msg) = "saveCsv"
    /\ \E fault \in Faults :
          Saved(SaveCsv(fs_dirs, fs_files, DictGet(msg, K_targetDir),
                        DictGet(msg, K_filename), DictGet(msg, K_base64), fault))
    /\ UNCHANGED << stdin, envVars, readVars, msg, nread, frames_read, tk, prompts >>

\* lines 72-73
HandleUnknown ==
    /\ pc = "handle"
    /\ Route(msg) = "unknown"
    /\ Answer(Return(PyNone), UnknownType)
    /\ UNCHANGED << stdin, envVars, readVars, msg, nread, frames_read, tk, prompts, fsVars >>

Next ==
    \/ \E payload \in Payloads : WriteFrame(payload)
    \/ \E payload \in CutPayloads : \E k \in 1..(Len(payload) + 3) : WriteCut(payload, k)
    \/ CloseInput
    \/ ReadLen
    \/ ReadData
    \/ HandleNoGet
    \/ HandlePickFolder
    \/ HandleSaveCsv
    \/ HandleUnknown

Spec == Init /\ [][Next]_vars

\* ------------------------------------------------------------------------
\* Properties
\* ------------------------------------------------------------------------

Last(seq) == seq[Len(seq)]

\* the iteration of the frame read last is over
IterationOver == pc \in {"read_len", "exited"}

\* the frame read last arrived whole, and its iteration is over
WholeFrameDone ==
    /\ IterationOver
    /\ Len(raw_len) = 4
    /\ Len(data) = msg_len

\* the process runs on and the response written last reports a failure
AnsweredFailure ==
    /\ pc = "read_len"
    /\ exit_code = -1
    /\ Len(stdout) > 0
    /\ Last(stdout).ok = FALSE

\* a whole frame waits on the input
FramePending ==
    /\ Len(stdin) >= 4
    /\ Len(stdin) >= 4 + UnpackLE(SubSeq(stdin, 1, 4))

\* C1: whenever the process is about to read a frame, or has stopped, it has
\* written exactly one response for each frame it read completely.
C1_OneResponsePerFrame ==
    IterationOver => Len(stdout) = Len(frames_read)

\* C2: a whole frame whose (non-empty) payload is not UTF-8 or not JSON is
\* answered with a failure response and the process stays running.
C2_DecodeErrorAnswered ==
    (WholeFrameDone /\ msg_len > 0 /\ ~JsonLoads(data).ok) => AnsweredFailure

\* C3: a frame of declared length 0 is answered with a failure response
\* and the process stays running.
C3_EmptyFrameAnswered ==
    (WholeFrameDone /\ msg_len = 0) => AnsweredFailure

\* C4: a step that handles a pickFolder or saveCsv request always writes one
\* response and returns to reading; when the handler raised, the response is
\* {ok: false, error: <message of the exception>}.
C4_HandlerFailureAnswered ==
    [][ ( /\ pc = "handle"
          /\ pc' # "handle"
          /\ msg.k = "dict"
          /\ DictGet(msg, K_type) \in {T_pickFolder, T_saveCsv} )
        => ( /\ pc' = "read_len"
             /\ exit_code' = -1
             /\ Len(stdout') = Len(stdout) + 1
             /\ SubSeq(stdout', 1, Len(stdout)) = stdout
             /\ Last(stdout').ok = ~caught'.raised
             /\ caught'.raised => Last(stdout') = [ok |-> FALSE, error |-> caught'.msg] )
      ]_vars

\* C4 witness: a saveCsv request met a file-system error, which was answered
W4_FsErrorAnswered ==
    /\ pc = "read_len"
    /\ msg.k = "dict"
    /\ DictGet(msg, K_type) = T_saveCsv
    /\ caught.raised
    /\ caught.type = "PermissionError"
    /\ Last(stdout) = [ok |-> FALSE, error |-> "[Errno 13] Permission denied"]

\* C5: when the read of a prefix finds the stream closed with no byte
\* pending, the process exits with status 0 and writes nothing.
C5_CleanEndOfStream ==
    [][ (pc = "read_len" /\ pc' # "read_len" /\ Len(stdin) = 0)
        => (pc' = "exited" /\ exit_code' = 0 /\ stdout' = stdout) ]_vars

\* C5 witness: the stream was closed after a frame was answered, and the
\* process has exited with status 0
W5_CleanExit ==
    /\ pc = "exited"
    /\ exit_code = 0
    /\ Len(raw_len) = 0
    /\ stdin_closed
    /\ Len(stdout) = 1
    /\ Len(frames_read) = 1

\* C6: when the stream is closed with 1, 2 or 3 bytes of a prefix pending,
\* the read returns (the process does not wait for more), and the process
\* exits with a non-zero status and writes nothing.
C6_ShortPrefixFatal ==
    /\ []((pc = "read_len" /\ stdin_closed /\ Len(stdin) \in 1..3) => ENABLED ReadLen)
    /\ [][ (pc = "read_len" /\ pc' # "read_len" /\ Len(stdin) \in 1..3)
           => (pc' = "exited" /\ exit_code' > 0 /\ stdout' = stdout) ]_vars

\* C6 witness: the process has exited on a prefix of 2 bytes
W6_ShortPrefixExit ==
    /\ pc = "exited"
    /\ Len(raw_len) = 2
    /\ exit_code = 1

\* C7: when the stream closes after a whole prefix and before the whole
\* payload, the process exits with a non-zero status.
C7_ShortPayloadFatal ==
    (Len(raw_len) = 4 /\ pc # "read_data" /\ Len(data) < msg_len)
        => (pc = "exited" /\ exit_code > 0)

\* C8: a stopped process has status 0 and found the stream closed at a frame
\* boundary, or has a non-zero status and found it closed inside a frame; no
\* whole frame is left unread.
C8_StopsOnlyAtEndOfStream ==
    pc = "exited" =>
        /\ \/ exit_code = 0 /\ Len(raw_len) = 0
           \/ exit_code > 0 /\ Len(raw_len) \in 1..3
           \/ exit_code > 0 /\ Len(raw_len) = 4 /\ Len(data) < msg_len
        /\ ~FramePending

\* C9: a whole frame whose payload is JSON but not an object is answered
\* with a failure response and the process stays running.
C9_NonObjectAnswered ==
    (WholeFrameDone /\ JsonLoads(data).ok /\ JsonLoads(data).val.k # "dict")
        => AnsweredFailure

\* C10: a step that handles an object whose "type" is absent or is neither
\* "pickFolder" nor "saveCsv" writes exactly {ok: false, error: "Unknown
\* message type"}, shows no prompt, leaves the file system alone and returns
\* to reading.
C10_UnknownType ==
    [][ ( /\ pc = "handle"
          /\ pc' # "handle"
          /\ msg.k = "dict"
          /\ DictGet(msg, K_type) \notin {T_pickFolder, T_saveCsv} )
        => ( /\ stdout' = Append(stdout, [ok |-> FALSE, error |-> "Unknown message type"])
             /\ prompts' = prompts
             /\ fs_dirs' = fs_dirs
             /\ fs_files' = fs_files
             /\ pc' = "read_len"
             /\ exit_code' = -1 )
      ]_vars

\* C10 witness: an object without "type" was answered, after an object
\* with an unknown "type" was
W10_UnknownAnswered ==
    /\ pc = "read_len"
    /\ msg.k = "dict"
    /\ K_type \notin DOMAIN msg.v
    /\ frames_read = << P_bogus, P_objsp >>
    /\ Len(stdout) = 2
    /\ Last(stdout).error = "Unknown message type"

\* the payloads of the whole frames a byte sequence starts with
RECURSIVE SplitFrames(_)
SplitFrames(bytes) ==
    IF Len(bytes) < 4 \/ Len(bytes) < 4 + UnpackLE(SubSeq(bytes, 1, 4)) THEN <<>>
    ELSE << SubSeq(bytes, 5, 4 + UnpackLE(SubSeq(bytes, 1, 4))) >>
         \o SplitFrames(SubSeq(bytes, 5 + UnpackLE(SubSeq(bytes, 1, 4)), Len(bytes)))

\* a response was written and the process is about to read the next frame:
\* msg is the request that the last response answers
JustAnswered == pc = "read_len" /\ Len(stdout) > 0

\* the response r has the shape of a success for a request whose success
\* field is `key`, or of a failure
WellShaped(r, key) ==
    /\ "ok" \in DOMAIN r
    /\ r.ok \in BOOLEAN
    /\ r.ok => /\ "error" \notin DOMAIN r
               /\ DOMAIN r \cap {"folder", "path"} = {key}
    /\ ~r.ok => /\ "error" \in DOMAIN r
                /\ r.error \in STRING
                /\ DOMAIN r \cap {"folder", "path"} = {}

\* C11: every response has a boolean ok; with ok true it has no error field
\* and, of folder and path, exactly the field of its request kind (folder
\* for pickFolder, path for saveCsv); with ok false it has a string error
\* field and neither folder nor path.
C11_ResponseShape ==
    /\ \A i \in 1..Len(stdout) : \E key \in {"folder", "path"} : WellShaped(stdout[i], key)
    /\ JustAnswered =>
           /\ Last(stdout).ok => Route(msg) \in {"pickFolder", "saveCsv"}
           /\ WellShaped(Last(stdout), IF Route(msg) = "pickFolder" THEN "folder" ELSE "path")

\* C11 witness: a saveCsv request was answered with a path, and then a
\* pickFolder request with a folder
W11_BothSuccessKinds ==
    /\ JustAnswered
    /\ frames_read = << P_save, P_pick >>
    /\ stdout[1].ok
    /\ DOMAIN stdout[1] = {"ok", "path"}
    /\ stdout[2].ok
    /\ DOMAIN stdout[2] = {"ok", "folder"}

\* the files that two file tables do not agree on: created, removed, or
\* with another content
ChangedFiles(before, after) ==
    { n \in DOMAIN before \cup DOMAIN after :
        \/ n \notin DOMAIN before
        \/ n \notin DOMAIN after
        \/ before[n] # after[n] }

\* name is what follows the last "/" of p (all of p when it has none)
IsLastComponent(name, p) ==
    /\ \A j \in 1..Len(name) : name[j] # Slash
    /\ \E k \in 0..Len(p) : /\ name = SubSeq(p, k + 1, Len(p))
                            /\ k > 0 => p[k] = Slash

\* this step is the handling of a saveCsv request
SaveCsvStep == pc = "handle" /\ pc' # "handle" /\ Route(msg) = "saveCsv"

\* C12: whatever the filename of a saveCsv request, every file that its
\* handling creates or modifies is a direct child of targetDir and is named
\* by the last path component of filename; no other file changes.
C12_WritesStayInTargetDir ==
    [][ SaveCsvStep =>
          \A n \in ChangedFiles(fs_files, fs_files') :
              /\ DictGet(msg, K_targetDir).k = "str"
              /\ DictGet(msg, K_filename).k = "str"
              /\ Len(n) = Len(Resolve(DictGet(msg, K_targetDir).v)) + 1
              /\ SubSeq(n, 1, Len(n) - 1) = Resolve(DictGet(msg, K_targetDir).v)
              /\ IsLastComponent(Last(n), DictGet(msg, K_filename).v)
      ]_vars

\* C12 witness: the request with targetDir "/t/u" and filename "../../e" was
\* answered with success, and the file it wrote is /t/u/e
W12_TraversalNameContained ==
    /\ JustAnswered
    /\ Last(frames_read) = P_save_evil
    /\ Last(stdout).ok
    /\ DOMAIN fs_files = { << B(<<"t">>), B(<<"u">>), B(<<"e">>) >> }

MissingTargetDir == [ok |-> FALSE, error |-> "Missing target_dir"]

\* C13: the handling of a saveCsv request whose targetDir is absent or is the
\* empty string writes {ok: false, error: "Missing target_dir"} and leaves
\* the directories and the files as they were.
C13_MissingTargetDir ==
    [][ ( /\ SaveCsvStep
          /\ \/ K_targetDir \notin DOMAIN msg.v
             \/ DictGet(msg, K_targetDir) = PyStr(<<>>) )
        => ( /\ stdout' = Append(stdout, MissingTargetDir)
             /\ fs_dirs' = fs_dirs
             /\ fs_files' = fs_files )
      ]_vars

\* C13 witness: a request with targetDir "" and a request without targetDir
\* were both answered with "Missing target_dir"
W13_BothRefused ==
    /\ JustAnswered
    /\ frames_read = << P_save_nodir, P_save_miss >>
    /\ K_targetDir \notin DOMAIN msg.v
    /\ stdout = << MissingTargetDir, MissingTargetDir >>
    /\ fs_files = NoFiles

\* what follows the last "/" of p
LastComponent(p) ==
    CHOOSE name \in { SubSeq(p, k + 1, Len(p)) : k \in 0..Len(p) } : IsLastComponent(name, p)

\* the fields of the saveCsv request being handled
ReqTargetDir == DictGet(msg, K_targetDir)
ReqFilename  == DictGet(msg, K_filename)
ReqBase64    == DictGet(msg, K_base64)

\* the child of targetDir that the request names
ReqChild == Append(Resolve(ReqTargetDir.v), LastComponent(ReqFilename.v))

\* the operating system refuses nothing to this step: no permission or space
\* error, no regular file at targetDir or above it, no directory where the
\* file goes
OsPermits ==
    /\ caught'.raised =>
           caught'.type \notin {"PermissionError", "OSError", "FileExistsError",
                                "NotADirectoryError"}
    /\ ReqChild \notin fs_dirs

\* this step handles a saveCsv request with a non-empty targetDir, a filename
\* whose last component is not empty, and base64 text that decodes
GoodSaveStep ==
    /\ SaveCsvStep
    /\ ReqTargetDir.k = "str"
    /\ Len(ReqTargetDir.v) > 0
    /\ ReqFilename.k = "str"
    /\ Len(LastComponent(ReqFilename.v)) > 0
    /\ ~B64Decode(ReqBase64).raised
    /\ OsPermits

\* after this step targetDir exists, the child of targetDir named by the
\* last component of filename holds the decoded bytes, and the response is
\* {ok: true, path: <a path of that file>}
SaveSucceeded ==
    /\ Resolve(ReqTargetDir.v) \in fs_dirs'
    /\ ReqChild \in DOMAIN fs_files'
    /\ fs_files'[ReqChild] = B64Decode(ReqBase64).val
    /\ Len(stdout') = Len(stdout) + 1
    /\ Last(stdout').ok
    /\ DOMAIN Last(stdout') = {"ok", "path"}
    /\ Last(stdout').path.k = "str"
    /\ Resolve(Last(stdout').path.v) = ReqChild

Dot == B(<<".">>)
DotDot == B(<<".", ".">>)

\* C14 as stated: a saveCsv request with a non-empty targetDir, a filename
\* with a non-empty last component and valid base64 succeeds (the operating
\* system permitting): targetDir exists afterwards, the file
\* targetDir/<last component> holds exactly the decoded bytes, and the
\* response is {ok: true, path: <that file's path>}.
C14_SaveSucceeds_AsStated ==
    [][ GoodSaveStep => SaveSucceeded ]_vars

\* C14, amended: the same, for a filename whose last component is not
\* empty and is neither "." nor "..".
C14_SaveSucceeds ==
    [][ (GoodSaveStep /\ LastComponent(ReqFilename.v) \notin {Dot, DotDot})
            => SaveSucceeded ]_vars

\* C14 witness: the same request was handled twice with success; the second
\* write replaced the file the first one made
W14_SavedTwice ==
    /\ JustAnswered
    /\ frames_read = << P_save, P_save >>
    /\ Len(stdout) = 2
    /\ stdout[1].ok
    /\ stdout[2] = [ok |-> TRUE, path |-> PyStr(B(<<"/", "t", "/", "a">>))]
    /\ fs_files = (<< B(<<"t">>), B(<<"a">>) >> :> B(<<"h", "i">>))
    /\ << B(<<"t">>) >> \in fs_dirs

\* the exceptions that stand for a refusal injected by the operating system
\* (permission denied, no space left)
IsInjectedFault(e) == e.raised /\ e.type \in {"PermissionError", "OSError"}

\* this step handles a saveCsv request that repeats the request before it,
\* which was answered
RepeatedSaveStep ==
    /\ SaveCsvStep
    /\ Len(frames_read) >= 2
    /\ frames_read[Len(frames_read)] = frames_read[Len(frames_read) - 1]
    /\ Len(stdout) = Len(frames_read) - 1

\* C15: when a saveCsv request is handled twice in a row, and the operating
\* system refuses nothing either time, the second response equals the first
\* (the same path) and the second handling leaves the directories and the
\* files as the first left them.
C15_SaveIdempotent ==
    [][ (RepeatedSaveStep /\ ~IsInjectedFault(caught) /\ ~IsInjectedFault(caught'))
        => ( /\ Last(stdout') = Last(stdout)
             /\ fs_dirs' = fs_dirs
             /\ fs_files' = fs_files )
      ]_vars

\* C15 witness: the request with targetDir "/t/u" and filename "../../e" was
\* handled twice and got the same path twice
W15_SameTwice ==
    /\ JustAnswered
    /\ frames_read = << P_save_evil, P_save_evil >>
    /\ Len(stdout) = 2
    /\ stdout[1].ok
    /\ "path" \in DOMAIN stdout[1]
    /\ stdout[2] = stdout[1]
    /\ DOMAIN fs_files = { << B(<<"t">>), B(<<"u">>), B(<<"e">>) >> }

\* C16: the path of every successful saveCsv response is absolute (it starts
\* with "/"), a relative targetDir included.
C16_PathAbsolute ==
    \A i \in 1..Len(stdout) :
        (stdout[i].ok /\ "path" \in DOMAIN stdout[i])
            => ( /\ stdout[i].path.k = "str"
                 /\ Len(stdout[i].path.v) > 0
                 /\ stdout[i].path.v[1] = Slash )

\* C17: every pickFolder request is answered with success: {ok: true,
\* folder: null} when there is no GUI, the user cancels or the picker
\* returns "", and {ok: true, folder: <non-empty string>} when a folder is
\* chosen; a missing GUI or a cancellation never gives ok = false.
C17_PickAlwaysSucceeds ==
    (JustAnswered /\ Route(msg) = "pickFolder")
        => ( /\ Last(stdout).ok
             /\ DOMAIN Last(stdout) = {"ok", "folder"}
             /\ \/ Last(stdout).folder = PyNone
                \/ /\ Last(stdout).folder.k = "str"
                   /\ Len(Last(stdout).folder.v) > 0 )

\* a byte sequence is a concatenation of whole frames: each starts with 4
\* bytes that give, little-endian, the number of payload bytes that follow
RECURSIVE WellFramed(_)
WellFramed(bytes) ==
    \/ Len(bytes) = 0
    \/ /\ Len(bytes) >= 4
       /\ Len(bytes) >= 4 + UnpackLE(SubSeq(bytes, 1, 4))
       /\ WellFramed(SubSeq(bytes, 5 + UnpackLE(SubSeq(bytes, 1, 4)), Len(bytes)))

\* the process is reading, or about to read, its input
Reading == pc \in {"read_len", "read_data"}

\* C18: whenever the process reads its input, nothing waits in the output
\* buffer, and the bytes on the output pipe are a concatenation of whole
\* frames, one for each response in order, each a 4-byte little-endian
\* length followed by exactly that many bytes, which are the encoded
\* response.
C18_OutputWellFramed ==
    Reading =>
        /\ stdout_buffer = <<>>
        /\ WellFramed(stdout_pipe)
        /\ Len(SplitFrames(stdout_pipe)) = Len(stdout)
        /\ \A i \in 1..Len(stdout) : SplitFrames(stdout_pipe)[i] = JsonDumps(stdout[i])

\* C18 witness: the process waits for input with two responses of different
\* lengths on the output pipe
W18_TwoFramesOut ==
    /\ pc = "read_len"
    /\ stdin = <<>>
    /\ ~stdin_closed
    /\ Len(SplitFrames(stdout_pipe)) = 2
    /\ Len(SplitFrames(stdout_pipe)[1]) # Len(SplitFrames(stdout_pipe)[2])
    /\ Len(stdout_pipe) = 8 + Len(SplitFrames(stdout_pipe)[1]) + Len(SplitFrames(stdout_pipe)[2])

\* C19: the handling of a saveCsv request with a non-empty targetDir whose
\* base64 text does not decode writes a failure response and creates,
\* truncates or overwrites no file; the only change it can make is to
\* create targetDir and its missing parents.
C19_BadBase64WritesNothing ==
    [][ ( /\ SaveCsvStep
          /\ Truthy(ReqTargetDir)
          /\ B64Decode(ReqBase64).raised )
        => ( /\ Len(stdout') = Len(stdout) + 1
             /\ ~Last(stdout').ok
             /\ fs_files' = fs_files
             /\ fs_dirs \subseteq fs_dirs'
             /\ fs_dirs' # fs_dirs =>
                    /\ ReqTargetDir.k = "str"
                    /\ fs_dirs' \subseteq fs_dirs \cup Ancestors(Resolve(ReqTargetDir.v)) )
      ]_vars

\* C19 witness: a file was saved, then a request for the same file with
\* base64 text "a" was refused, and the file is as it was
W19_FileKept ==
    /\ JustAnswered
    /\ frames_read = << P_save, P_save_badb64 >>
    /\ stdout[1].ok
    /\ ~stdout[2].ok
    /\ caught.raised
    /\ caught.type = "binascii.Error"
    /\ fs_files = (<< B(<<"t">>), B(<<"a">>) >> :> B(<<"h", "i">>))

\* C20: in every reachable state the responses written are at most as many
\* as the frames read, and at most one fewer; so no request has two
\* responses and no response is written before a frame was read; once the
\* loop has stopped no step that writes a response can be taken.
C20_ResponsesFollowFrames ==
    /\ Len(stdout) <= nread
    /\ nread <= Len(stdout) + 1
    /\ Len(SplitFrames(stdout_pipe)) = Len(stdout)
    /\ pc = "exited" =>
           ~ENABLED (HandleNoGet \/ HandlePickFolder \/ HandleSaveCsv \/ HandleUnknown)

\* C20 witness: two frames were read, the first was answered, and the second
\* is being handled
W20_SecondPending ==
    /\ pc = "handle"
    /\ nread = 2
    /\ Len(stdout) = 1
    /\ Len(frames_read) = 2

====
